---- MODULE Spec2Model ----
(***************************************************************************)
(* State-machine model of the two Streamlit chatbot demos:                 *)
(*   app_streamlit.py    ("en": website page + PDF page)                   *)
(*   app_streamlit_fr.py ("fr": site form + chat)                          *)
(* One action is one rerun of main() of the running program for one        *)
(* browser session, triggered by one widget of the page rendered before.   *)
(*                                                                         *)
(* Strings are modelled by what the code looks at: whether they start      *)
(* with the fetch-error prefix, whose content they carry, and their        *)
(* characters as a run-length list of whitespace ("ws") and other ("ch")   *)
(* runs, so that slicing, strip() and emptiness are computed.              *)
(***************************************************************************)
EXTENDS Integers, Sequences, FiniteSets, TLC

\* ------------------------------------------------------------------ bounds
MaxTurns == 4      \* turns kept in one transcript before asking is cut off
MaxGets == 2       \* HTTP GETs counted per URL before fetching is cut off

\* ------------------------------------------------------- program constants
EnSiteMax == 12000     \* joined[:12000]
FrSiteMax == 15000     \* joined[:15000]
PdfMax == 20000        \* joined[:20000]
EnCacheSize == 1       \* @lru_cache(maxsize=1)
FrCacheSize == 16      \* @lru_cache(maxsize=16)

JYRO_URL == "jyro"
FrUrls == {"u1", "u2"}
Urls == {JYRO_URL} \cup FrUrls
Sessions == {"s1", "s2"}
Questions == {"q1", "q2"}
Absent == "absent"     \* key not in st.session_state / widget without a value

\* -------------------------------------------------------------- strings
Run(k, n) == [k |-> k, n |-> n]

RECURSIVE StrLen(_)
StrLen(runs) == IF runs = <<>> THEN 0 ELSE Head(runs).n + StrLen(Tail(runs))

\* runs[:n]
RECURSIVE SliceDropsLast(_, _)
SliceDropsLast(runs, n) ==
  IF runs = <<>> \/ n <= 0 THEN <<>>
  ELSE IF Head(runs).n < n
       THEN <<Head(runs)>> \o SliceDropsLast(Tail(runs), n - Head(runs).n)
       ELSE IF n - 1 = 0 THEN <<>> ELSE <<Run(Head(runs).k, n - 1)>>

RECURSIVE Slice(_, _)
Slice(runs, n) ==
  IF runs = <<>> \/ n <= 0 THEN <<>>
  ELSE IF Head(runs).n <= n
       THEN <<Head(runs)>> \o Slice(Tail(runs), n - Head(runs).n)
       ELSE <<Run(Head(runs).k, n)>>

\* s.strip() == ""
IsBlank(runs) == \A i \in 1..Len(runs) : runs[i].k = "ws"

\* "\n".join(parts), parts a sequence of run lists
RECURSIVE Join(_)
Join(parts) ==
  IF parts = <<>> THEN <<>>
  ELSE IF Len(parts) = 1 THEN parts[1]
  ELSE parts[1] \o <<Run("ws", 1)>> \o Join(Tail(parts))

\* A string value: err = it starts with the fetch-error prefix, of = the
\* source whose content (or failure) it carries, cause = the exception text.
Str(err, of, cause, runs) == [err |-> err, of |-> of, cause |-> cause, runs |-> runs]

\* ------------------------------------------------------------ web pages
\* What a site answers to GET: a failure, or a document.
Failures == {"timeout", "http500"}
Pages == {"empty", "page"}
Responses == Failures \cup Pages

Line(lead, body, trail) == [lead |-> lead, body |-> body, trail |-> trail]
Elem(tag, lines) == [tag |-> tag, lines |-> lines]

\* "empty": nothing but a script and blank lines; "page": visible text of
\* 5 + 16000 + 5000 characters on three lines, between hidden elements
HtmlDoc(p) ==
  CASE p = "empty" -> << Elem("script", <<Line(0, 9, 0)>>),
                         Elem("p", <<Line(2, 0, 1)>>) >>
    [] p = "page"  -> << Elem("style", <<Line(0, 4, 0)>>),
                         Elem("p", <<Line(1, 5, 0), Line(0, 0, 0), Line(0, 16000, 2)>>),
                         Elem("noscript", <<Line(0, 3, 0)>>),
                         Elem("p", <<Line(3, 5000, 0)>>) >>

RECURSIVE Flatten(_)
Flatten(elems) ==
  IF elems = <<>> THEN <<>> ELSE Head(elems).lines \o Flatten(Tail(elems))

RECURSIVE LineRuns(_)
LineRuns(lines) ==
  IF lines = <<>> THEN <<>>
  ELSE << <<Run("ch", Head(lines).body)>> >> \o LineRuns(Tail(lines))

\* decompose script/style/noscript, get_text, strip each line, drop the
\* empty ones, join with "\n"
Sanitize(doc) ==
  LET visible == SelectSeq(doc, LAMBDA e : e.tag \notin {"script", "style", "noscript"})
      lines == Flatten(visible)
      non_empty == SelectSeq(lines, LAMBDA l : l.body > 0)
  IN Join(LineRuns(non_empty))

\* ------------------------------------------------------------ PDF files
\* An uploaded file: its name and what pypdf makes of its bytes.
PdfFiles == {"a1", "a2", "b", "c"}

FileName(f) == CASE f = "a1" -> "a.pdf" [] f = "a2" -> "a.pdf"
                 [] f = "b" -> "b.pdf" [] f = "c" -> "c.pdf"
FileNames == {FileName(f) : f \in PdfFiles}

\* PdfReader(file) raises on bytes that are no PDF
Unreadable(f) == f = "c"

\* One entry per page: raises = page.extract_text() raises, none = it
\* returns None, otherwise the runs of the text it returns.
PageOf(raises, none, runs) == [raises |-> raises, none |-> none, runs |-> runs]
FilePages(f) ==
  CASE f = "a1" -> << PageOf(FALSE, FALSE, <<Run("ch", 30)>>),
                      PageOf(TRUE, FALSE, <<>>),
                      PageOf(FALSE, FALSE, <<Run("ch", 25000)>>) >>
    [] f = "a2" -> << PageOf(FALSE, FALSE, <<Run("ch", 8)>>) >>
    [] f = "b"  -> << PageOf(FALSE, TRUE, <<>>),
                      PageOf(FALSE, FALSE, <<Run("ws", 3)>>) >>
    [] f = "c"  -> << >>

RECURSIVE PageTexts(_)
PageTexts(pages) ==
  IF pages = <<>> THEN <<>>
  ELSE IF Head(pages).raises THEN PageTexts(Tail(pages))
  ELSE << (IF Head(pages).none THEN <<>> ELSE Head(pages).runs) >>
       \o PageTexts(Tail(pages))

\* extract_pdf_text(io.BytesIO(pdf_bytes))
extract_pdf_text(f) ==
  IF Unreadable(f)
  THEN [raised |-> TRUE, text |-> Str(FALSE, f, "PdfReadError", <<>>)]
  ELSE [raised |-> FALSE,
        text |-> Str(FALSE, f, "", Slice(Join(PageTexts(FilePages(f))), PdfMax))]

\* ---------------------------------------------------------------- state
VARIABLES
  app,            \* which program runs: "en", "fr" ("none": only the cut is applied)
  sessions,       \* the browser sessions connected to the process
  apiKey,         \* st.secrets["OPENAI_KEY"]: Absent, "" or "sk"
  site,           \* what each URL answers to a GET now
  cache,          \* fetch_site_text's lru_cache, least recently used first
  gets,           \* HTTP GETs issued per URL
  page,           \* en: sidebar radio of each session
  uploaded,       \* en: file_uploader value of each session
  web_messages,   \* en: st.session_state.web_messages
  pdf_text,       \* en: st.session_state.pdf_text
  pdf_filename,   \* en: st.session_state.pdf_filename
  pdf_messages,   \* en: st.session_state.pdf_messages
  site_url,       \* fr: st.session_state.site_url
  site_text,      \* fr: st.session_state.site_text
  chat_messages,  \* fr: st.session_state.chat_messages
  ui,             \* what the last run rendered for each session
  ev,             \* the last interaction: who, what, and its outbound requests
  used,           \* context handed to the assistant per session and page
  btext, bmax, bout   \* input, bound and result of the bounded-context cut

vars == << app, sessions, apiKey, site, cache, gets, page, uploaded,
           web_messages, pdf_text, pdf_filename, pdf_messages,
           site_url, site_text, chat_messages, ui, ev, used,
           btext, bmax, bout >>

enVars == << page, uploaded, web_messages, pdf_text, pdf_filename, pdf_messages >>
frVars == << site_url, site_text, chat_messages >>
boundVars == << btext, bmax, bout >>
fixedVars == << app, sessions, apiKey >>

NoStr == Str(FALSE, Absent, "", <<>>)
Ui(note, input) == [note |-> note, input |-> input]
\* arg: the value the widget carried; prevId, had: the stored source identity
\* and whether the transcript held turns, before the run; get / extract: an
\* HTTP GET / a PDF extraction was run; sent: the messages passed to
\* client.chat.completions.create (<<>>: not called); fail: the exception
\* the assistant call raised ("": none)
Event(s, op, arg, prevId, had, get, extract, sent, fail) ==
  [s |-> s, op |-> op, arg |-> arg, prevId |-> prevId, had |-> had,
   get |-> get, extract |-> extract, sent |-> sent, fail |-> fail]
Turn(role, t, v) == [role |-> role, t |-> t, v |-> v]
Msg(role, persona, ctx, text) ==
  [role |-> role, persona |-> persona, ctx |-> ctx, text |-> text]

\* ------------------------------------------------------ fetch_site_text
SiteMax(a) == IF a = "en" THEN EnSiteMax ELSE FrSiteMax
CacheSize(a) == IF a = "en" THEN EnCacheSize ELSE FrCacheSize

\* the body of fetch_site_text: requests.get, raise_for_status, clean, cut
Download(a, url) ==
  IF site[url] \in Failures
  THEN Str(TRUE, url, site[url], <<Run("ch", 40)>>)
  ELSE Str(FALSE, url, "", Slice(Sanitize(HtmlDoc(site[url])), SiteMax(a)))

CacheIndex(c, url) ==
  IF \E i \in 1..Len(c) : c[i].url = url
  THEN CHOOSE i \in 1..Len(c) : c[i].url = url
  ELSE 0

Without(c, i) == SubSeq(c, 1, i - 1) \o SubSeq(c, i + 1, Len(c))

\* the lru_cache wrapper bypassed: every call downloads
fetch_uncached(a, url, s) ==
  [val |-> Download(a, url), by |-> s, hit |-> FALSE, cache |-> cache]

\* fetch_site_text(url) called by session s: the lru_cache lookup, then the body
fetch_site_text(a, url, s) ==
  LET i == CacheIndex(cache, url)
  IN IF i > 0
     THEN [val |-> cache[i].val, by |-> cache[i].by, hit |-> TRUE,
           cache |-> Without(cache, i) \o <<cache[i]>>]
     ELSE LET v == Download(a, url)
              grown == cache \o <<[url |-> url, val |-> v, by |-> s]>>
          IN [val |-> v, by |-> s, hit |-> FALSE,
              cache |-> IF Len(grown) > CacheSize(a) THEN Tail(grown) ELSE grown]

\* the startswith test left out
IsFetchErrorNever(text) == FALSE

\* site_text.startswith("Error while fetching the website")
IsFetchError(text) == text.err

\* ---------------------------------------------------------- assistants
\* get_openai_client(): st.secrets["OPENAI_KEY"] raises KeyError when the
\* secret is missing, RuntimeError is raised when it is empty
get_openai_client ==
  IF apiKey = Absent THEN [ok |-> FALSE, cause |-> "KeyError"]
  ELSE IF apiKey = "" THEN [ok |-> FALSE, cause |-> "RuntimeError"]
  ELSE [ok |-> TRUE, cause |-> ""]

\* the user message left out of the request
JyroMessagesNoUser(user_message, site_context) ==
  << Msg("system", "jyro", site_context, "") >>
JyroMessages(user_message, site_context) ==
  << Msg("system", "jyro", site_context, ""),
     Msg("user", "", NoStr, user_message) >>

PdfMessages(question, text) ==
  << Msg("system", "pdf", NoStr, ""),
     Msg("system", "", text, ""),
     Msg("user", "", NoStr, question) >>

SiteMessages(user_message, url, site_context) ==
  << Msg("system", url, site_context, ""),
     Msg("user", "", NoStr, user_message) >>

\* call_*_assistant(...) inside the caller's try/except: the client is
\* built first, then the request is sent; outcome is what the API does.
\* messages = what was sent (<<>>: no request issued), answer = the
\* assistant turn appended by the caller.
\* the except branch lost: a failed call leaves an empty answer
AssistantSwallow(messages, outcome) ==
  LET client == get_openai_client
  IN IF ~client.ok
     THEN [messages |-> <<>>, fail |-> client.cause,
           answer |-> Turn("assistant", "text", "")]
     ELSE IF outcome = "fail"
     THEN [messages |-> messages, fail |-> "APIError",
           answer |-> Turn("assistant", "text", "")]
     ELSE [messages |-> messages, fail |-> "",
           answer |-> Turn("assistant", "text", "answer")]

\* the error message appended under the user's role
AssistantRoleSlip(messages, outcome) ==
  LET client == get_openai_client
  IN IF ~client.ok
     THEN [messages |-> <<>>, fail |-> client.cause,
           answer |-> Turn("user", "error", client.cause)]
     ELSE IF outcome = "fail"
     THEN [messages |-> messages, fail |-> "APIError",
           answer |-> Turn("user", "error", "APIError")]
     ELSE [messages |-> messages, fail |-> "",
           answer |-> Turn("assistant", "text", "answer")]

Assistant(messages, outcome) ==
  LET client == get_openai_client
  IN IF ~client.ok
     THEN [messages |-> <<>>, fail |-> client.cause,
           answer |-> Turn("assistant", "error", client.cause)]
     ELSE IF outcome = "fail"
     THEN [messages |-> messages, fail |-> "APIError",
           answer |-> Turn("assistant", "error", "APIError")]
     ELSE [messages |-> messages, fail |-> "",
           answer |-> Turn("assistant", "text", "answer")]

call_jyro_assistant(user_message, site_context, outcome) ==
  Assistant(JyroMessages(user_message, site_context), outcome)
call_pdf_assistant(question, text, outcome) ==
  Assistant(PdfMessages(question, text), outcome)
call_site_assistant(user_message, url, site_context, outcome) ==
  Assistant(SiteMessages(user_message, url, site_context), outcome)

Outcomes == {"ok", "fail"}

\* --------------------------------------------------------- interactions
Transcripts == {"web", "pdf", "fr"}

\* site_text / pdf_text as first read: None or "" ("not text")
IsEmpty(text) == text.runs = <<>>

UseGet(r, url) == [gets EXCEPT ![url] = IF r.hit THEN @ ELSE @ + 1]
CanFetch(a, url, s) == fetch_site_text(a, url, s).hit \/ gets[url] < MaxGets

\* app_streamlit.py, render_website_chat_page() run for session s with the
\* chat_input value user_input ("" when the widget did not fire)
render_website_chat_page(s, op, user_input, outcome) ==
  LET r == fetch_site_text("en", JYRO_URL, s)
      site_text_ == r.val
      a == call_jyro_assistant(user_input, site_text_, outcome)
      asked == ~IsFetchError(site_text_) /\ user_input # ""
  IN /\ CanFetch("en", JYRO_URL, s)
     /\ cache' = r.cache
     /\ gets' = UseGet(r, JYRO_URL)
     /\ IF IsFetchError(site_text_)
        THEN /\ ui' = [ui EXCEPT ![s] = Ui("fetch_error", FALSE)]
             /\ UNCHANGED << web_messages, used >>
        ELSE /\ ui' = [ui EXCEPT ![s] = Ui("chat", TRUE)]
             /\ IF user_input # ""
                THEN /\ web_messages' = [web_messages EXCEPT ![s] =
                            @ \o << Turn("user", "text", user_input), a.answer >>]
                     /\ used' = [used EXCEPT ![s]["web"] = site_text_]
                ELSE UNCHANGED << web_messages, used >>
     /\ ev' = Event(s, op, user_input, JYRO_URL, web_messages[s] # <<>>,
                    ~r.hit, FALSE, IF asked THEN a.messages ELSE <<>>,
                    IF asked THEN a.fail ELSE "")
     /\ UNCHANGED << pdf_text, pdf_filename, pdf_messages >>


\* "pdf_text" not in st.session_state or
\* st.session_state.get("pdf_filename") != pdf_source_name
PdfChanged(text, stored, name) == text.of = Absent \/ stored # name

\* not st.session_state.pdf_text or not st.session_state.pdf_text.strip()
NoReadableText(text) == IsEmpty(text) \/ IsBlank(text.runs)

\* app_streamlit.py, render_pdf_chat_page() run for session s with the
\* file_uploader value f, the button value ask and the text_input value q
render_pdf_chat_page(s, op, f, ask, q, outcome) ==
  IF f = Absent
  THEN /\ ui' = [ui EXCEPT ![s] = Ui("info", FALSE)]
       /\ ev' = Event(s, op, f, pdf_filename[s], pdf_messages[s] # <<>>,
                      FALSE, FALSE, <<>>, "")
       /\ UNCHANGED << pdf_text, pdf_filename, pdf_messages, used >>
  ELSE
    LET name == FileName(f)
        reads == PdfChanged(pdf_text[s], pdf_filename[s], name)
        x == extract_pdf_text(f)
        crashed == reads /\ x.raised
        text == IF reads THEN x.text ELSE pdf_text[s]
        msgs == IF reads THEN <<>> ELSE pdf_messages[s]
        a == call_pdf_assistant(q, text, outcome)
        asked == ~crashed /\ ~NoReadableText(text) /\ ask /\ q # ""
    IN /\ ev' = Event(s, op, IF op = "ask" THEN q ELSE f, pdf_filename[s],
                      pdf_messages[s] # <<>>, FALSE, reads,
                      IF asked THEN a.messages ELSE <<>>,
                      IF asked THEN a.fail ELSE "")
       /\ IF crashed
          THEN /\ ui' = [ui EXCEPT ![s] = Ui("crash", FALSE)]
               /\ UNCHANGED << pdf_text, pdf_filename, pdf_messages, used >>
          ELSE /\ pdf_text' = [pdf_text EXCEPT ![s] = text]
               /\ pdf_filename' = [pdf_filename EXCEPT ![s] =
                                      IF reads THEN name ELSE @]
               /\ IF NoReadableText(text)
                  THEN /\ ui' = [ui EXCEPT ![s] = Ui("no_text_warning", FALSE)]
                       /\ pdf_messages' = [pdf_messages EXCEPT ![s] = msgs]
                       /\ used' = [used EXCEPT ![s]["pdf"] =
                                      IF reads THEN NoStr ELSE @]
                  ELSE /\ ui' = [ui EXCEPT ![s] = Ui("chat", TRUE)]
                       /\ IF ask /\ q # ""
                          THEN /\ pdf_messages' = [pdf_messages EXCEPT ![s] =
                                      msgs \o << Turn("user", "text", q), a.answer >>]
                               /\ used' = [used EXCEPT ![s]["pdf"] = text]
                          ELSE /\ pdf_messages' = [pdf_messages EXCEPT ![s] = msgs]
                               /\ used' = [used EXCEPT ![s]["pdf"] =
                                              IF reads THEN NoStr ELSE @]

\* app_streamlit.py, main(): the sidebar radio picks the page
main_en(s, op, pg, f, ask, q, outcome) ==
  /\ app = "en"
  /\ s \in sessions
  /\ page' = [page EXCEPT ![s] = pg]
  /\ uploaded' = [uploaded EXCEPT ![s] = IF pg = "pdf" THEN f ELSE Absent]
  /\ IF pg = "web"
     THEN render_website_chat_page(s, op, q, outcome)
     ELSE /\ render_pdf_chat_page(s, op, f, ask, q, outcome)
          /\ UNCHANGED << cache, gets, web_messages >>
  /\ UNCHANGED << fixedVars, site, frVars, boundVars >>

Rendered(s) == ui[s].note # "unrendered"
\* the URLs typed into the French form: both with one session, one of them
\* when two sessions share the process
Shared == Cardinality(sessions) > 1
FormUrls == IF Shared THEN {"u1"} ELSE FrUrls
Room(msgs) == Len(msgs) + 2 <= MaxTurns

\* the page is opened, or the website page is picked in the sidebar
WebView(s) ==
  /\ s \in sessions
  /\ main_en(s, "view", "web", Absent, FALSE, "", "ok")
\* a question is sent with the website page's chat_input
WebAsk(s, q, outcome) ==
  /\ page[s] = "web" /\ ui[s].input /\ Room(web_messages[s])
  /\ main_en(s, "ask", "web", Absent, FALSE, q, outcome)
\* the PDF page is picked in the sidebar, or rerun as it is
PdfView(s) ==
  /\ Rendered(s)
  /\ main_en(s, "view", "pdf", uploaded[s], FALSE, "", "ok")
\* a file is put into the uploader, or taken out of it (f = Absent)
PdfUpload(s, f) ==
  /\ page[s] = "pdf" /\ Rendered(s) /\ f # uploaded[s]
  /\ main_en(s, "upload", "pdf", f, FALSE, "", "ok")
\* the Ask button is clicked with q in the question field (possibly empty)
PdfAsk(s, q, outcome) ==
  /\ page[s] = "pdf" /\ ui[s].input /\ Room(pdf_messages[s])
  /\ main_en(s, "ask", "pdf", uploaded[s], TRUE, q, outcome)

\* the transcript is never cleared
FrCommitKeep(msgs, stored, url) == msgs

\* st.session_state.chat_messages = [] after a successful load
FrCommit(msgs, stored, url) == <<>>

\* app_streamlit_fr.py, main() run for session s: load_clicked and form_url
\* are the form's values, user_input the chat_input value ("": did not fire)
main_fr(s, op, load_clicked, form_url, user_input, outcome) ==
  LET loads == load_clicked /\ form_url # ""
      r == fetch_site_text("fr", form_url, s)
      failed == loads /\ IsFetchError(r.val)
      commits == loads /\ ~failed
      url == IF commits THEN form_url ELSE site_url[s]
      text == IF commits THEN r.val ELSE site_text[s]
      msgs == IF commits THEN FrCommit(chat_messages[s], site_url[s], form_url)
              ELSE chat_messages[s]
      a == call_site_assistant(user_input, url, text, outcome)
      chat == ~failed /\ url # Absent /\ url # "" /\ ~IsEmpty(text)
      asked == chat /\ user_input # ""
  IN /\ app = "fr"
     /\ s \in sessions
     /\ loads => CanFetch("fr", form_url, s)
     /\ cache' = IF loads THEN r.cache ELSE cache
     /\ gets' = IF loads THEN UseGet(r, form_url) ELSE gets
     /\ site_url' = [site_url EXCEPT ![s] = url]
     /\ site_text' = [site_text EXCEPT ![s] = text]
     /\ ui' = [ui EXCEPT ![s] = IF failed THEN Ui("fetch_error", FALSE)
                                ELSE IF chat THEN Ui("chat", TRUE)
                                ELSE Ui("info", FALSE)]
     /\ chat_messages' = [chat_messages EXCEPT ![s] =
                            IF asked
                            THEN msgs \o << Turn("user", "text", user_input), a.answer >>
                            ELSE msgs]
     /\ used' = [used EXCEPT ![s]["fr"] =
                    IF asked THEN text ELSE IF commits THEN NoStr ELSE @]
     /\ ev' = Event(s, op, IF op = "ask" THEN user_input ELSE form_url,
                    site_url[s], chat_messages[s] # <<>>,
                    loads /\ ~r.hit, FALSE, IF asked THEN a.messages ELSE <<>>,
                    IF asked THEN a.fail ELSE "")
     /\ UNCHANGED << fixedVars, site, enVars, boundVars >>

\* the page is opened or rerun without any widget firing
FrView(s) ==
  /\ s \in sessions
  /\ main_fr(s, "view", FALSE, "", "", "ok")
\* "Charger le site" is clicked with u in the URL field (possibly empty)
FrSubmit(s, u) ==
  /\ Rendered(s)
  /\ u \in FormUrls \cup {""}
  /\ main_fr(s, "submit", TRUE, u, "", "ok")
\* a question is sent with the chat_input
FrAsk(s, q, outcome) ==
  /\ ui[s].input /\ Room(chat_messages[s])
  /\ main_fr(s, "ask", FALSE, "", q, outcome)

\* ---------------------------------------------------------- environment
AppUrls == IF app = "en" THEN {JYRO_URL} ELSE IF app = "fr" THEN FormUrls ELSE {}
NoEvent == Event("", "site", "", "", FALSE, FALSE, FALSE, <<>>, "")

\* a site starts answering something else
SiteChange(u, r) ==
  /\ u \in AppUrls
  /\ r # site[u]
  /\ site' = [site EXCEPT ![u] = r]
  /\ ev' = NoEvent
  /\ UNCHANGED << fixedVars, cache, gets, enVars, frVars, ui, used, boundVars >>

\* ------------------------------------------------- bounded-context cut
Kinds == {"ws", "ch"}
Lengths == {1, EnSiteMax - 1, EnSiteMax, FrSiteMax, FrSiteMax + 1,
            PdfMax, PdfMax + 1}
Texts == {<<>>} \cup {<<Run(k, n)>> : k \in Kinds, n \in Lengths}
         \cup {<<Run(k, n), Run(j, m)>> : k \in Kinds, j \in Kinds,
                                           n \in {1, EnSiteMax - 1}, m \in Lengths}
MaxChars == {EnSiteMax, FrSiteMax, PdfMax}

\* joined[:maxChars] applied to btext
Bound ==
  /\ app = "none"
  /\ bout = <<"unset">>
  /\ bout' = <<"set", Slice(btext, bmax)>>
  /\ UNCHANGED << fixedVars, site, cache, gets, enVars, frVars, ui, ev,
                  used, btext, bmax >>

\* the cut applied again to its own result
Rebound ==
  /\ app = "none"
  /\ bout # <<"unset">>
  /\ btext # bout[2]
  /\ btext' = bout[2]
  /\ bout' = <<"set", Slice(bout[2], bmax)>>
  /\ UNCHANGED << fixedVars, site, cache, gets, enVars, frVars, ui, ev,
                  used, bmax >>

\* ------------------------------------------------------- specifications
InitProcess(a, ss) ==
  /\ app = a
  /\ sessions = ss
  /\ apiKey \in {Absent, "", "sk"}
  /\ site \in {f \in [Urls -> Responses] : \A u \in Urls \ AppUrls : f[u] = "page"}
  /\ cache = <<>>
  /\ gets = [u \in Urls |-> 0]
  /\ page = [s \in Sessions |-> "web"]
  /\ uploaded = [s \in Sessions |-> Absent]
  /\ web_messages = [s \in Sessions |-> <<>>]
  /\ pdf_text = [s \in Sessions |-> NoStr]
  /\ pdf_filename = [s \in Sessions |-> Absent]
  /\ pdf_messages = [s \in Sessions |-> <<>>]
  /\ site_url = [s \in Sessions |-> Absent]
  /\ site_text = [s \in Sessions |-> NoStr]
  /\ chat_messages = [s \in Sessions |-> <<>>]
  /\ ui = [s \in Sessions |-> Ui("unrendered", FALSE)]
  /\ ev = NoEvent
  /\ used = [s \in Sessions |-> [t \in Transcripts |-> NoStr]]

Init ==
  /\ \E a \in {"en", "fr"} : InitProcess(a, {"s1"})
  /\ btext = <<>> /\ bmax = 0 /\ bout = <<"unset">>

InitIso ==
  /\ \E a \in {"en", "fr"} : InitProcess(a, Sessions)
  /\ btext = <<>> /\ bmax = 0 /\ bout = <<"unset">>

InitBound ==
  /\ InitProcess("none", {})
  /\ btext \in Texts /\ bmax \in MaxChars /\ bout = <<"unset">>

Next ==
  \/ \E s \in Sessions : WebView(s)
  \/ \E s \in Sessions, q \in Questions, o \in Outcomes : WebAsk(s, q, o)
  \/ \E s \in Sessions : PdfView(s)
  \/ \E s \in Sessions, f \in PdfFiles \cup {Absent} : PdfUpload(s, f)
  \/ \E s \in Sessions, q \in Questions \cup {""}, o \in Outcomes : PdfAsk(s, q, o)
  \/ \E s \in Sessions : FrView(s)
  \/ \E s \in Sessions, u \in FrUrls \cup {""} : FrSubmit(s, u)
  \/ \E s \in Sessions, q \in Questions, o \in Outcomes : FrAsk(s, q, o)
  \/ \E u \in Urls, r \in Responses : SiteChange(u, r)

\* two sessions: the site pages, which share fetch_site_text's cache
NextIso ==
  \/ \E s \in Sessions : WebView(s)
  \/ \E s \in Sessions, q \in Questions, o \in Outcomes : WebAsk(s, q, o)
  \/ \E s \in Sessions : FrView(s)
  \/ \E s \in Sessions, u \in FrUrls \cup {""} : FrSubmit(s, u)
  \/ \E s \in Sessions, q \in Questions, o \in Outcomes : FrAsk(s, q, o)
  \/ \E u \in Urls, r \in Responses : SiteChange(u, r)

NextBound == Bound \/ Rebound

Spec == Init /\ [][Next]_vars
SpecIso == InitIso /\ [][NextIso]_vars
SpecBound == InitBound /\ [][NextBound]_vars

\* ---------------------------------------------------------- properties
Transcript(s, t) ==
  CASE t = "web" -> web_messages[s]
    [] t = "pdf" -> pdf_messages[s]
    [] t = "fr" -> chat_messages[s]

\* the same after the step
NextTranscript(s, t) ==
  CASE t = "web" -> web_messages'[s]
    [] t = "pdf" -> pdf_messages'[s]
    [] t = "fr" -> chat_messages'[s]

\* the transcript the last interaction worked on
EvTranscript ==
  IF app = "fr" THEN "fr" ELSE IF page[ev.s] = "web" THEN "web" ELSE "pdf"

IsPrefix(a, b) == Len(a) <= Len(b) /\ SubSeq(b, 1, Len(a)) = a

\* the last interaction submitted a URL other than the stored one
SubmittedNewUrl == ev.op = "submit" /\ ev.arg # "" /\ ev.arg # ev.prevId
\* the last interaction uploaded a file named otherwise than the stored one
UploadedNewName ==
  ev.op = "upload" /\ ev.arg # Absent /\ FileName(ev.arg) # ev.prevId
\* the source of the last interaction could not be loaded
LoadFailed == ev.s \in Sessions /\ ui[ev.s].note \in {"fetch_error", "crash"}

\* the session's state is reset to the new source
ResetToNew ==
  /\ SubmittedNewUrl =>
       /\ chat_messages[ev.s] = <<>>
       /\ site_url[ev.s] = ev.arg
       /\ site_text[ev.s].of = ev.arg /\ ~site_text[ev.s].err
  /\ UploadedNewName =>
       /\ pdf_messages[ev.s] = <<>>
       /\ pdf_filename[ev.s] = FileName(ev.arg)
       /\ pdf_text[ev.s].of = ev.arg

C2_AppendOnly ==
  [][\A s \in Sessions :
       /\ IsPrefix(web_messages[s], web_messages'[s])
       /\ pdf_filename'[s] = pdf_filename[s]
            => IsPrefix(pdf_messages[s], pdf_messages'[s])
       /\ site_url'[s] = site_url[s]
            => IsPrefix(chat_messages[s], chat_messages'[s])]_vars

\* the source a session's page talks about, and the context stored for it
SourceOf(s, t) ==
  CASE t = "web" -> JYRO_URL
    [] t = "pdf" -> pdf_filename[s]
    [] t = "fr" -> site_url[s]

\* C3: a question triggers no HTTP GET and no PDF extraction, it is answered
\* with the context of the questions before it on the same loaded source, and
\* the site it is about has been fetched exactly once.
C3_ContextReused ==
  [][\A s \in Sessions, t \in Transcripts :
       (ev'.op = "ask" /\ ev'.s = s /\ NextTranscript(s, t) # Transcript(s, t)) =>
         /\ gets' = gets
         /\ ~ev'.get /\ ~ev'.extract
         /\ used[s][t] # NoStr => used'[s][t] = used[s][t]
         /\ t # "pdf" => gets'[SourceOf(s, t)] = 1]_vars

\* a second question has been answered on the same source
C3_Witness ==
  /\ ev.op = "ask"
  /\ Len(Transcript(ev.s, EvTranscript)) >= 4
  /\ used[ev.s][EvTranscript] # NoStr

\* the content of the source a session's page is about is empty or blank
ActiveBlank(s) ==
  \/ /\ app = "en" /\ page[s] = "web" /\ cache # <<>>
     /\ ~IsFetchError(cache[1].val) /\ NoReadableText(cache[1].val)
  \/ /\ app = "en" /\ page[s] = "pdf" /\ uploaded[s] # Absent
     /\ pdf_filename[s] = FileName(uploaded[s]) /\ NoReadableText(pdf_text[s])
  \/ /\ app = "fr" /\ site_url[s] # Absent /\ NoReadableText(site_text[s])

ActiveTranscript(s) ==
  IF app = "fr" THEN "fr" ELSE IF page[s] = "web" THEN "web" ELSE "pdf"

\* C4: with empty or blank content no conversation is started: the page
\* rendered offers no question input and is no chat page, no turn is in the
\* transcript and no completion request was sent.
C4_EmptyRefused ==
  \A s \in sessions :
    (Rendered(s) /\ ActiveBlank(s)) =>
      /\ ~ui[s].input
      /\ ui[s].note # "chat"
      /\ Transcript(s, ActiveTranscript(s)) = <<>>
      /\ ev.s = s => ev.sent = <<>>

\* the URL the last interaction fetched
EvUrl == IF app = "en" THEN JYRO_URL ELSE ev.arg

\* C5: a run whose HTTP GET fails renders the fetch error, offers no question
\* input, sends no completion request and leaves the session's stored source
\* identity, stored context and transcripts as they were.
C5_FetchErrorHalts ==
  [][(ev'.get /\ site[IF app = "en" THEN JYRO_URL ELSE ev'.arg] \in Failures) =>
       /\ ui'[ev'.s] = Ui("fetch_error", FALSE)
       /\ ev'.sent = <<>>
       /\ site_url'[ev'.s] = site_url[ev'.s]
       /\ site_text'[ev'.s] = site_text[ev'.s]
       /\ chat_messages'[ev'.s] = chat_messages[ev'.s]
       /\ web_messages'[ev'.s] = web_messages[ev'.s]]_vars

\* a site with a conversation going, and the load of another site failed
C5_Witness ==
  /\ ev.op = "submit" /\ ev.get /\ site[ev.arg] \in Failures
  /\ ev.had /\ chat_messages[ev.s] # <<>>
  /\ ui[ev.s].note = "fetch_error"

\* C6: a failed completion call keeps the user's turn, appends exactly one
\* assistant turn carrying the error and its cause right after it, and the
\* question input is offered again; every question, whatever came before,
\* appends its user turn and one assistant turn.
C6_CompletionErrorRecovered ==
  [][\A t \in Transcripts :
       (ev'.op = "ask" /\ ev'.arg # "" /\ NextTranscript(ev'.s, t) # Transcript(ev'.s, t)) =>
         /\ Len(NextTranscript(ev'.s, t)) = Len(Transcript(ev'.s, t)) + 2
         /\ IsPrefix(Transcript(ev'.s, t) \o << Turn("user", "text", ev'.arg) >>,
                     NextTranscript(ev'.s, t))
         /\ ui'[ev'.s].input
         /\ ev'.fail # "" =>
              NextTranscript(ev'.s, t)[Len(NextTranscript(ev'.s, t))]
                = Turn("assistant", "error", ev'.fail)
         /\ ev'.fail = "" =>
              NextTranscript(ev'.s, t)[Len(NextTranscript(ev'.s, t))]
                = Turn("assistant", "text", "answer")]_vars

\* a question answered after one whose completion call failed
C6_Witness ==
  /\ ev.op = "ask" /\ ev.fail = ""
  /\ Len(Transcript(ev.s, EvTranscript)) = 4
  /\ Transcript(ev.s, EvTranscript)[2].t = "error"
  /\ Transcript(ev.s, EvTranscript)[4] = Turn("assistant", "text", "answer")

Roles(m) == [i \in 1..Len(m) |-> m[i].role]

\* C7: every completion request is one or two system messages, the persona
\* and the context of the page, followed by one user message, the question
\* just submitted; nothing of the transcript is in it.
C7_OnlyCurrentQuestion ==
  ev.sent # <<>> =>
    /\ Roles(ev.sent) \in { <<"system", "user">>, <<"system", "system", "user">> }
    /\ ev.sent[Len(ev.sent)].text = ev.arg
    /\ \A i \in 1..(Len(ev.sent) - 1) : ev.sent[i].text = ""
    /\ ev.sent[Len(ev.sent) - 1].ctx = used[ev.s][EvTranscript]
    /\ Len(ev.sent) <= 3

\* a request sent while the transcript already held turns
C7_Witness ==
  /\ ev.sent # <<>> /\ ev.had
  /\ Len(Transcript(ev.s, EvTranscript)) = 4
  /\ Transcript(ev.s, EvTranscript)[1].v # ev.arg

\* the cache entry the last interaction's fetch_site_text call returned
EvEntry == cache[CacheIndex(cache, EvUrl)]
EvFetched ==
  /\ ev.op \in {"view", "ask", "submit"}
  /\ EvUrl \in Urls
  /\ CacheIndex(cache, EvUrl) > 0

\* C8: what a session gets from fetch_site_text does not depend on the
\* other session: it is what the session downloaded itself, or what the
\* site answers now.
C8_SessionsIsolated ==
  EvFetched => \/ EvEntry.by = ev.s
               \/ EvEntry.val = Download(app, EvUrl)

\* C9: without a credential no HTTP GET and no completion request is ever
\* issued and no turn is appended.
C9_NoKeyNoRequest ==
  apiKey # "sk" =>
    /\ \A u \in Urls : gets[u] = 0
    /\ ~ev.get /\ ev.sent = <<>>
    /\ \A s \in Sessions, t \in Transcripts : Transcript(s, t) = <<>>

Min(a, b) == IF a <= b THEN a ELSE b

\* a is a prefix of b, character by character
RECURSIVE IsCharPrefix(_, _)
IsCharPrefix(a, b) ==
  IF a = <<>> THEN TRUE
  ELSE IF b = <<>> THEN FALSE
  ELSE IF Head(a).k # Head(b).k THEN FALSE
  ELSE IF Head(a).n = Head(b).n THEN IsCharPrefix(Tail(a), Tail(b))
  ELSE IF Head(a).n < Head(b).n
       THEN IsCharPrefix(Tail(a), <<Run(Head(b).k, Head(b).n - Head(a).n)>> \o Tail(b))
  ELSE IsCharPrefix(<<Run(Head(a).k, Head(a).n - Head(b).n)>> \o Tail(a), Tail(b))

\* C10: the bounded context is the prefix of the text of length
\* min(len(text), maxChars), and the text itself when it fits the bound.
C10_PrefixCut ==
  bout[1] = "set" =>
    /\ StrLen(bout[2]) = Min(StrLen(btext), bmax)
    /\ StrLen(bout[2]) <= bmax
    /\ IsCharPrefix(bout[2], btext)
    /\ StrLen(btext) <= bmax => bout[2] = btext

\* a text longer than the bound has been cut
C10_Witness ==
  /\ bout[1] = "set"
  /\ StrLen(btext) > bmax
  /\ StrLen(bout[2]) = bmax

\* user, assistant, user, assistant, ...: a question at every odd place,
\* the model's answer or the completion-error message at every even place
Alternates(msgs) ==
  /\ Len(msgs) % 2 = 0
  /\ \A i \in 1..Len(msgs) :
       IF i % 2 = 1
       THEN msgs[i].role = "user" /\ msgs[i].t = "text" /\ msgs[i].v \in Questions
       ELSE msgs[i].role = "assistant"
            /\ \/ msgs[i] = Turn("assistant", "text", "answer")
               \/ msgs[i].t = "error"

\* C11: after every interaction each transcript (web_messages, pdf_messages,
\* chat_messages) has even length and alternates user, assistant starting
\* with user: no user turn is left without its assistant turn, and no
\* assistant turn stands without the user turn before it.
C11_TranscriptAlternates ==
  \A s \in Sessions, t \in Transcripts : Alternates(Transcript(s, t))

\* a transcript of two exchanges, the second one closed by the error message
C11_Witness ==
  \E s \in Sessions, t \in Transcripts :
    /\ Len(Transcript(s, t)) = 4
    /\ Transcript(s, t)[2] = Turn("assistant", "text", "answer")
    /\ Transcript(s, t)[4] = Turn("assistant", "error", "APIError")

====
